---- MODULE Spec2Model ----
(***************************************************************************)
(* The shared trading state (BotState) of src/main.py and its four worker  *)
(* threads: market_scanner, price_updater, spike_detector, exit_manager.   *)
(*                                                                         *)
(* Python dicts keep insertion order; a dict is a sequence of <<key,       *)
(* value>> pairs.  Prices, liquidity and times are integers held in        *)
(* floats, or the floats nan and inf; the profit and loss of a trade is    *)
(* computed in IEEE 754 doubles; the delta of compute_delta and            *)
(* SPIKE_THRESHOLD are the exact rationals <<numerator, denominator>>,     *)
(* whose one comparison rounding does not change.  None is the empty       *)
(* tuple.                                                                  *)
(***************************************************************************)
EXTENDS Integers, Sequences, FiniteSets, TLC

VARIABLES
  lock,           \* BotState.lock: "free" or the thread holding it
  shutdown,       \* BotState.shutdown
  market_pairs,   \* BotState.market_pairs: dict asset -> MarketPair
  price_history,  \* BotState.price_history: dict asset -> deque of prices
  active_trades,  \* BotState.active_trades: dict asset -> ActiveTrade
  cooldowns,      \* BotState.cooldowns: dict asset -> time of last entry
  pc,             \* position of each worker thread in its loop
  clock,          \* time.time()
  now,            \* the local `now` of spike_detector and exit_manager
  d_i,            \* spike_detector: position in price_history.items()
  snap,           \* exit_manager: what is left of list(active_trades.items())
  buys,           \* history: successful place_buy calls per asset
  sells,          \* history: successful place_sell calls per asset
  last_entry,     \* history: entry time of the last trade opened per asset
  appended,       \* history: every sample appended to an asset's deque
  x_in,           \* inputs of the exit-rule evaluation checked on its own
  x_out,          \* its result
  last_fetch,     \* history: the worker and outcome of the last fetch done:
                  \* `returned` when the call gave a response, `failed` when
                  \* the except clause of the cycle ran
  scanned,        \* history: assets of the pairs the last completed scan kept
  main,           \* the main thread: its position, and its signal handler
  MAX_CONCURRENT_TRADES  \* env("max_concurrent_trades"), read once at start

vars == <<lock, shutdown, market_pairs, price_history, active_trades, cooldowns,
          pc, clock, now, d_i, snap, buys, sells, last_entry, appended,
          x_in, x_out, last_fetch, scanned, main, MAX_CONCURRENT_TRADES>>

(* what the workers never write: the setting, and the variables of the      *)
(* checks that have a specification of their own                            *)
aux == <<appended, x_in, x_out, last_fetch, scanned, main, MAX_CONCURRENT_TRADES>>

-----------------------------------------------------------------------------
(* Bounds of the model *)

MaxPrice == 2
MaxTime == 1
MaxAppends == 3
MaxExitPrice == 4

(* Configuration (environment of src/main.py) *)

PRICE_HISTORY_SIZE == 2
MIN_LIQUIDITY == 1
COOLDOWN_SECONDS == 1
TRADE_SIZE_USDC == 10
HOLDING_TIME_LIMIT == 1
SPIKE_THRESHOLD == <<1, 2>>

None == <<>>

Workers == {"market_scanner", "price_updater", "spike_detector", "exit_manager"}

Assets == {"yes1", "no1"}
Prices == 0..MaxPrice
(* the quotes the price feed moves between while the four workers trade *)
Quotes == {1, 2}
(* the settings of max_concurrent_trades the workers are run under *)
MaxTradesSettings == {1, 2}
StartTime == COOLDOWN_SECONDS
Times == StartTime..(StartTime + MaxTime)

-----------------------------------------------------------------------------
(* Numbers of a response and the floats made of them.  A JSON number n that *)
(* is a natural number is written n, and so is float(n); the JSON literals  *)
(* NaN and Infinity, which response.json() reads as float("nan") and        *)
(* float("inf"), and JSON null, which float() rejects with a TypeError,     *)
(* are written as the three codes below.  No number of the model is         *)
(* negative, so a code is never taken for a number.                         *)

NaN == -1
Infinity == -2
Null == -3

(* float(v) returns; float(v) is then v *)
Floatable(v) == v # Null

(* x < y and x <= y of two floats: False when either is nan *)
NumLess(x, y) ==
  IF x = NaN \/ y = NaN THEN FALSE
  ELSE IF x = Infinity THEN FALSE
  ELSE IF y = Infinity THEN TRUE
  ELSE x < y
NumLe(x, y) ==
  IF x = NaN \/ y = NaN THEN FALSE
  ELSE IF y = Infinity THEN TRUE
  ELSE IF x = Infinity THEN FALSE
  ELSE x <= y

-----------------------------------------------------------------------------
(* Rationals: <<n, d>> with d > 0 is n / d; <<1, 0>> is the float inf and   *)
(* <<0, 0>> the float nan, which is less than nothing and than which        *)
(* nothing is less.                                                         *)

RatioNaN == <<0, 0>>
RatioInf == <<1, 0>>

Lt(a, b) ==
  IF a = RatioNaN \/ b = RatioNaN THEN FALSE
  ELSE a[1] * b[2] < b[1] * a[2]

-----------------------------------------------------------------------------
(* float: an IEEE 754 double is <<sign, exponent, hi, mid, lo>>: its 53     *)
(* significant bits are the 17 bits of hi (the first is 1), the 18 of mid   *)
(* and the 18 of lo, and its value is                                       *)
(*   sign * (hi * 2^36 + mid * 2^18 + lo) * 2^(exponent - 53),              *)
(* or it is Zero, FloatInf (an exponent above every other) or FloatNaN.     *)
(* Every result is rounded to the nearest double, a tie to the one whose    *)
(* last bit is 0.  The finite numbers of the model are far from overflow    *)
(* and underflow.                                                           *)

HiBits == 17
LimbBits == 18
Limb == 2 ^ LimbBits

Zero == <<0, 0, 0, 0, 0>>
FloatNaN == <<0, 0, 0, 0, 1>>
FloatInf == <<1, 2 ^ 11, 2 ^ (HiBits - 1), 0, 0>>

(* a / d brought into [1/2, 1) by powers of two: <<a, d, exponent>> *)
Normalize[a \in Nat, d \in Nat, e \in Int] ==
  IF a >= d THEN Normalize[a, 2 * d, e + 1]
  ELSE IF 2 * a < d THEN Normalize[2 * a, d, e - 1]
  ELSE <<a, d, e>>

(* the next k bits of r / d after the point, appended to q, and the         *)
(* remainder                                                                *)
DivLimb[r \in Nat, d \in Nat, k \in Nat, q \in Nat] ==
  IF k = 0 THEN <<q, r>>
  ELSE IF 2 * r >= d THEN DivLimb[2 * r - d, d, k - 1, 2 * q + 1]
  ELSE DivLimb[2 * r, d, k - 1, 2 * q]

(* the significand one up in its last place when `up` *)
Rounded(sign, e, hi, mid, lo, up) ==
  IF ~up THEN <<sign, e, hi, mid, lo>>
  ELSE IF lo + 1 < Limb THEN <<sign, e, hi, mid, lo + 1>>
  ELSE IF mid + 1 < Limb THEN <<sign, e, hi, mid + 1, 0>>
  ELSE IF hi + 1 < 2 ^ HiBits THEN <<sign, e, hi + 1, 0, 0>>
  ELSE <<sign, e + 1, 2 ^ (HiBits - 1), 0, 0>>

(* the double nearest to n / d, d > 0: float("n/d" in decimal), and the     *)
(* float division n / d of two integers held in doubles                     *)
Float(n, d) ==
  IF n = 0 THEN Zero
  ELSE LET nz == Normalize[IF n < 0 THEN -n ELSE n, d, 0]
           h == DivLimb[nz[1], nz[2], HiBits, 0]
           m == DivLimb[h[2], nz[2], LimbBits, 0]
           l == DivLimb[m[2], nz[2], LimbBits, 0]
           up == \/ 2 * l[2] > nz[2]
                 \/ 2 * l[2] = nz[2] /\ l[1] % 2 = 1
       IN  Rounded(IF n < 0 THEN -1 ELSE 1, nz[3], h[1], m[1], l[1], up)

(* by how many bits v is longer than the HiBits of a leading limb *)
Excess[v \in Nat] == IF v < 2 ^ HiBits THEN 0 ELSE 1 + Excess[v \div 2]

(* x * t for a double x and a double t that holds a natural number (below   *)
(* 2^12): the exact product, limb by limb, then rounded to 53 bits          *)
FloatTimes(x, t) ==
  IF x = FloatNaN THEN FloatNaN
  ELSE IF x = FloatInf THEN (IF t = 0 THEN FloatNaN ELSE FloatInf)
  ELSE IF x[1] = 0 \/ t = 0 THEN Zero
  ELSE LET pl == x[5] * t
           pm == x[4] * t + pl \div Limb
           ph == x[3] * t + pm \div Limb
           k == Excess[ph]
           cut == 2 ^ k
           dropped == (pl % Limb) % cut
           lo == (pl % Limb) \div cut + ((pm % Limb) % cut) * (Limb \div cut)
           mid == (pm % Limb) \div cut + (ph % cut) * (Limb \div cut)
           up == /\ k > 0
                 /\ \/ 2 * dropped > cut
                    \/ 2 * dropped = cut /\ lo % 2 = 1
       IN  Rounded(x[1], x[2] + k, ph \div cut, mid, lo, up)

MagnitudeLess(x, y) ==
  \/ x[2] < y[2]
  \/ /\ x[2] = y[2]
     /\ \/ x[3] < y[3]
        \/ x[3] = y[3] /\ x[4] < y[4]
        \/ x[3] = y[3] /\ x[4] = y[4] /\ x[5] < y[5]
(* x < y, x <= y, x >= y: each False when x or y is nan *)
FloatLess(x, y) ==
  IF x = FloatNaN \/ y = FloatNaN THEN FALSE
  ELSE IF x[1] # y[1] THEN x[1] < y[1]
  ELSE IF x[1] = 0 THEN FALSE
  ELSE IF x[1] = 1 THEN MagnitudeLess(x, y)
  ELSE MagnitudeLess(y, x)
FloatLe(x, y) == x # FloatNaN /\ y # FloatNaN /\ ~FloatLess(y, x)
FloatGe(x, y) == x # FloatNaN /\ y # FloatNaN /\ ~FloatLess(x, y)

(* the four optional thresholds: env(..., float, default=None) *)
PCT_PROFIT == Float(1, 2)
CASH_PROFIT == None
PCT_LOSS == Float(-1, 2)
CASH_LOSS == None

-----------------------------------------------------------------------------
(* dict *)

Has(d, k) == \E i \in 1..Len(d) : d[i][1] = k
IndexOf(d, k) == CHOOSE i \in 1..Len(d) : d[i][1] = k
Get(d, k) == d[IndexOf(d, k)][2]
GetOr(d, k, dflt) == IF Has(d, k) THEN Get(d, k) ELSE dflt
DictSet(d, k, v) ==
  IF Has(d, k) THEN [d EXCEPT ![IndexOf(d, k)] = <<k, v>>] ELSE Append(d, <<k, v>>)
(* setdefault taken for an assignment: a key already there is reset *)
SetDefault_Overwrites(d, k, v) ==
  IF Has(d, k) THEN [d EXCEPT ![IndexOf(d, k)] = <<k, v>>] ELSE Append(d, <<k, v>>)

SetDefault(d, k, v) == IF Has(d, k) THEN d ELSE Append(d, <<k, v>>)
DictDel(d, k) == SelectSeq(d, LAMBDA e : e[1] # k)

(* a full deque refusing the new sample instead of dropping its oldest *)
DequeAppend_KeepsOldest(h, x) ==
  IF Len(h) >= PRICE_HISTORY_SIZE THEN h ELSE Append(h, x)

(* deque(maxlen=PRICE_HISTORY_SIZE).append *)
DequeAppend(h, x) ==
  IF PRICE_HISTORY_SIZE = 0 THEN h
  ELSE IF Len(h) >= PRICE_HISTORY_SIZE THEN Append(Tail(h), x)
  ELSE Append(h, x)

-----------------------------------------------------------------------------
(* BotState() and the threads before they start *)
InitState ==
  /\ lock = "free"
  /\ shutdown = FALSE
  /\ market_pairs = <<>>
  /\ price_history = <<>>
  /\ active_trades = <<>>
  /\ cooldowns = <<>>
  /\ pc = [w \in Workers |-> "top"]
  /\ clock = StartTime
  /\ now = [w \in {"spike_detector", "exit_manager"} |-> 0]
  /\ d_i = 0
  /\ snap = <<>>
  /\ buys = [a \in Assets |-> 0]
  /\ sells = [a \in Assets |-> 0]
  /\ last_entry = [a \in Assets |-> -1]
  /\ appended = [a \in Assets |-> <<>>]
  /\ last_fetch = [by |-> "none", returned |-> FALSE, failed |-> FALSE]
  /\ scanned = {}
  /\ main = [pc |-> "top", joined |-> 0, handler |-> "idle", nested |-> "idle"]
  /\ MAX_CONCURRENT_TRADES \in MaxTradesSettings

Init == InitState /\ x_in = <<>> /\ x_out = <<>>

-----------------------------------------------------------------------------
(* What the market-data service can answer *)

Markets ==
  {[tokens |-> <<"yes1", "no1">>, liquidity |-> l] :
      l \in {MIN_LIQUIDITY - 1, MIN_LIQUIDITY}}
  \cup {[tokens |-> <<"yes1">>, liquidity |-> MIN_LIQUIDITY]}
MarketLists == {<<>>} \cup {<<m>> : m \in Markets}

PriceMaps == UNION {[S -> Quotes] : S \in SUBSET Assets}

(* the feed where the threads are followed step by step (the main thread    *)
(* and its handlers, the two fetchers): "yes1" at every quote, "no1" at one *)
OneQuote(a) == IF a = "yes1" THEN Quotes ELSE {1}
NarrowPriceMaps ==
  UNION {{f \in [S -> Quotes] : \A a \in S : f[a] \in OneQuote(a)} :
           S \in SUBSET Assets}

-----------------------------------------------------------------------------
(* A worker is at "top" before its first loop test, about to read the clock *)
(* at "now", in an external call at "fetch", "buy" or "sell", waiting for   *)
(* the lock at "lock", at the scanner's log line at "log", in time.sleep    *)
(* at "sleep", and "done" once its loop has ended.  A stretch of code that  *)
(* runs under the lock without calling out is one step: no other thread can *)
(* see inside it.                                                           *)

Detectors == {"spike_detector", "exit_manager"}
Fetchers == {"market_scanner", "price_updater"}

(* `while not state.is_shutdown():` when the worker arrives at it, first or *)
(* out of time.sleep.  The flag is read under the lock, which is released   *)
(* before the call returns; market_scanner and price_updater go on to       *)
(* their fetch, spike_detector and exit_manager to `now = time.time()`.     *)
is_shutdown(w) ==
  /\ pc[w] \in {"top", "sleep"}
  /\ lock = "free"
  /\ pc' = [pc EXCEPT ![w] = IF shutdown THEN "done"
                             ELSE IF w \in Fetchers THEN "fetch" ELSE "now"]
  /\ UNCHANGED <<lock, shutdown, market_pairs, price_history, active_trades,
                 cooldowns, clock, now, d_i, snap, buys, sells, last_entry>>
  /\ UNCHANGED aux

(* `now = time.time()` of spike_detector and exit_manager, whoever holds    *)
(* the lock; `with state.lock:` is next                                     *)
time_time(w) ==
  /\ pc[w] = "now"
  /\ now' = [now EXCEPT ![w] = clock]
  /\ pc' = [pc EXCEPT ![w] = "lock"]
  /\ UNCHANGED <<lock, shutdown, market_pairs, price_history, active_trades,
                 cooldowns, clock, d_i, snap, buys, sells, last_entry>>
  /\ UNCHANGED aux

Tick ==
  /\ clock < StartTime + MaxTime
  /\ clock' = clock + 1
  /\ UNCHANGED <<lock, shutdown, market_pairs, price_history, active_trades,
                 cooldowns, pc, now, d_i, snap, buys, sells, last_entry>>
  /\ UNCHANGED aux

(* shutdown_handler -> BotState.set_shutdown *)
set_shutdown ==
  /\ ~shutdown
  /\ lock = "free"
  /\ shutdown' = TRUE
  /\ UNCHANGED <<lock, market_pairs, price_history, active_trades,
                 cooldowns, pc, clock, now, d_i, snap, buys, sells, last_entry>>
  /\ UNCHANGED aux

-----------------------------------------------------------------------------
(* market_scanner *)

(* An entry of the response is [tokens, liquidity]: each token is written   *)
(* as its "token_id", the name of an asset, or as one of the two below; the *)
(* liquidity is a number, NaN, Infinity or Null.                            *)

(* a token without the key "token_id": yes["token_id"] raises KeyError *)
NoTokenId == "{}"
(* a "token_id" that is a list: as a dict key it raises TypeError *)
Unhashable == "[]"

MarketPair(m) ==
  [yes |-> m.tokens[1], no |-> m.tokens[2], liquidity |-> m.liquidity]

NewDeque == <<>>

(* the liquidity test left out *)
ScanOne_NoLiquidityTest(m, st) ==
  IF Len(m.tokens) # 2 THEN st
  ELSE IF ~Floatable(m.liquidity) THEN <<st[1], st[2], TRUE>>
  ELSE IF NoTokenId \in {m.tokens[1], m.tokens[2]} THEN <<st[1], st[2], TRUE>>
  ELSE LET pair == MarketPair(m)
       IN  IF pair.yes = Unhashable THEN <<st[1], st[2], TRUE>>
           ELSE IF pair.no = Unhashable
             THEN <<DictSet(st[1], pair.yes, pair), st[2], TRUE>>
           ELSE <<DictSet(DictSet(st[1], pair.yes, pair), pair.no, pair),
                  SetDefault(SetDefault(st[2], pair.yes, NewDeque),
                             pair.no, NewDeque),
                  FALSE>>

(* One iteration of `for m in markets` on <<market_pairs, price_history,    *)
(* raised>>, line by line: the test of len(tokens) (156), float() of the    *)
(* liquidity, which raises on null (159), the liquidity test, which a nan   *)
(* passes (160), the two "token_id" lookups (165-166), the store under      *)
(* pair.yes (170), the store under pair.no (171), which raises when the     *)
(* first store is already made, and the two setdefault (173-178).  `raised` *)
(* is TRUE when the iteration ends by an exception.                         *)
ScanOne(m, st) ==
  IF Len(m.tokens) # 2 THEN st
  ELSE IF ~Floatable(m.liquidity) THEN <<st[1], st[2], TRUE>>
  ELSE IF NumLess(m.liquidity, MIN_LIQUIDITY) THEN st
  ELSE IF NoTokenId \in {m.tokens[1], m.tokens[2]} THEN <<st[1], st[2], TRUE>>
  ELSE LET pair == MarketPair(m)
       IN  IF pair.yes = Unhashable THEN <<st[1], st[2], TRUE>>
           ELSE IF pair.no = Unhashable
             THEN <<DictSet(st[1], pair.yes, pair), st[2], TRUE>>
           ELSE <<DictSet(DictSet(st[1], pair.yes, pair), pair.no, pair),
                  SetDefault(SetDefault(st[2], pair.yes, NewDeque),
                             pair.no, NewDeque),
                  FALSE>>

(* `for m in markets`: the loop ends with the first iteration that raises *)
RECURSIVE ScanMarkets(_, _)
ScanMarkets(markets, st) ==
  IF markets = <<>> \/ st[3] THEN st
  ELSE ScanMarkets(Tail(markets), ScanOne(Head(markets), st))

(* fetch_active_markets() raises: the except clause logs, then time.sleep *)
fetch_active_markets_fails_body ==
  /\ pc["market_scanner"] = "fetch"
  /\ pc' = [pc EXCEPT !["market_scanner"] = "sleep"]
  /\ UNCHANGED <<lock, shutdown, market_pairs, price_history, active_trades,
                 cooldowns, clock, now, d_i, snap, buys, sells, last_entry>>

fetch_active_markets_fails == fetch_active_markets_fails_body /\ UNCHANGED aux

(* fetch_active_markets() has returned `markets` and the worker gets the    *)
(* lock: the whole `with state.lock:` block, then time.sleep.  The call     *)
(* lasts as long as it likes, so a return while the lock is taken is the    *)
(* return once it is free.  When an entry of the response raises, what is   *)
(* stored by then stays, the lock is released and the except clause leads   *)
(* to the same time.sleep.                                                  *)
market_scan_body(markets) ==
  /\ pc["market_scanner"] = "fetch"
  /\ lock = "free"
  /\ LET st == ScanMarkets(markets, <<market_pairs, price_history, FALSE>>)
     IN  /\ market_pairs' = st[1]
         /\ price_history' = st[2]
  /\ pc' = [pc EXCEPT !["market_scanner"] = "sleep"]
  /\ UNCHANGED <<lock, shutdown, active_trades, cooldowns, clock, now, d_i,
                 snap, buys, sells, last_entry>>

market_scan(markets) == market_scan_body(markets) /\ UNCHANGED aux

-----------------------------------------------------------------------------
(* price_updater *)

(* fetch_prices() raises: the except clause logs, then time.sleep *)
fetch_prices_fails_body ==
  /\ pc["price_updater"] = "fetch"
  /\ pc' = [pc EXCEPT !["price_updater"] = "sleep"]
  /\ UNCHANGED <<lock, shutdown, market_pairs, price_history, active_trades,
                 cooldowns, clock, now, d_i, snap, buys, sells, last_entry>>

fetch_prices_fails == fetch_prices_fails_body /\ UNCHANGED aux

(* `for asset, price in prices.items()`: each key occurs once and each      *)
(* tracked deque is appended to on its own, so the order is immaterial.     *)
AppendPrices(ph, prices) ==
  [i \in 1..Len(ph) |->
     IF ph[i][1] \in DOMAIN prices
       THEN <<ph[i][1], DequeAppend(ph[i][2], prices[ph[i][1]])>>
       ELSE ph[i]]

(* fetch_prices() has returned `prices` and the worker gets the lock.  When *)
(* float() rejects the price of a tracked asset (see                        *)
(* price_update_raises_noted), `prices` are the items before it: what they  *)
(* append stays, the lock is released and the except clause leads to the    *)
(* same time.sleep.                                                         *)
price_update_body(prices) ==
  /\ pc["price_updater"] = "fetch"
  /\ lock = "free"
  /\ price_history' = AppendPrices(price_history, prices)
  /\ pc' = [pc EXCEPT !["price_updater"] = "sleep"]
  /\ UNCHANGED <<lock, shutdown, market_pairs, active_trades, cooldowns,
                 clock, now, d_i, snap, buys, sells, last_entry>>

price_update(prices) == price_update_body(prices) /\ UNCHANGED aux

-----------------------------------------------------------------------------
(* spike_detector *)

(* (curr - prev) / prev for floats prev, not zero, and curr: nan when       *)
(* either is nan, and when prev is inf (curr - inf is -inf or nan, and      *)
(* -inf / inf is nan); inf when curr alone is inf                           *)
Ratio(curr, prev) ==
  IF prev = NaN \/ curr = NaN \/ prev = Infinity THEN RatioNaN
  ELSE IF curr = Infinity THEN RatioInf
  ELSE <<curr - prev, prev>>

compute_delta(history) ==
  IF Len(history) < 2 THEN None
  ELSE LET prev == history[Len(history) - 1]
           curr == history[Len(history)]
       IN  IF NumLe(prev, 0) THEN None ELSE Ratio(curr, prev)

(* `if delta is None or delta < SPIKE_THRESHOLD: continue`, the first of    *)
(* the four `continue` tests of the loop body; a delta of nan is not less   *)
(* than the threshold                                                       *)
NoSpike(history) ==
  LET delta == compute_delta(history)
  IN  delta = None \/ Lt(delta, SPIKE_THRESHOLD)

(* the test `asset in state.active_trades` left out *)
InTrade_LeftOut(trades, asset) == FALSE

InTrade(trades, asset) == Has(trades, asset)

(* the cooldown test left out *)
OnCooldown_LeftOut(cds, asset, t) == FALSE

OnCooldown(cds, asset, t) == t - GetOr(cds, asset, 0) < COOLDOWN_SECONDS

(* the cap tested with > for >= *)
AtCapacity_OffByOne(trades) == Len(trades) > MAX_CONCURRENT_TRADES

AtCapacity(trades) == Len(trades) >= MAX_CONCURRENT_TRADES

EntryOk(asset, history, t, trades, cds) ==
  /\ ~NoSpike(history)
  /\ ~InTrade(trades, asset)
  /\ ~OnCooldown(cds, asset, t)
  /\ ~AtCapacity(trades)

(* `for asset, history in state.price_history.items()` from position k on:  *)
(* the position at which place_buy is called next, 0 when the loop ends     *)
RECURSIVE NextBuy(_, _, _, _)
NextBuy(k, t, trades, cds) ==
  IF k > Len(price_history) THEN 0
  ELSE IF EntryOk(price_history[k][1], price_history[k][2], t, trades, cds) THEN k
  ELSE NextBuy(k + 1, t, trades, cds)

ActiveTrade(asset, price, t) ==
  [asset |-> asset, entry_price |-> price, entry_time |-> t]

(* the cooldown stamped whatever place_buy reports *)
BuyOutcome_StampsFailure(ok, asset, price, t) ==
  IF ok
    THEN <<DictSet(active_trades, asset, ActiveTrade(asset, price, t)),
           DictSet(cooldowns, asset, t)>>
    ELSE <<active_trades, DictSet(cooldowns, asset, t)>>

(* what `if place_buy(asset):` leaves in <<active_trades, cooldowns>> *)
BuyOutcome(ok, asset, price, t) ==
  IF ok
    THEN <<DictSet(active_trades, asset, ActiveTrade(asset, price, t)),
           DictSet(cooldowns, asset, t)>>
    ELSE <<active_trades, cooldowns>>

(* the loop runs on from position k: into the next place_buy, the lock      *)
(* held, or to its end, where the lock is released and time.sleep(1) begins *)
DetectorGoOn(k, trades, cds) ==
  LET n == NextBuy(k, now["spike_detector"], trades, cds)
  IN  /\ d_i' = n
      /\ lock' = IF n = 0 THEN "free" ELSE "spike_detector"
      /\ pc' = [pc EXCEPT !["spike_detector"] = IF n = 0 THEN "sleep" ELSE "buy"]
      /\ now' = IF n = 0 THEN [now EXCEPT !["spike_detector"] = 0] ELSE now

(* `with state.lock:` entered *)
spike_detector_enter ==
  /\ pc["spike_detector"] = "lock"
  /\ lock = "free"
  /\ DetectorGoOn(1, active_trades, cooldowns)
  /\ UNCHANGED <<shutdown, market_pairs, price_history, active_trades,
                 cooldowns, clock, snap, buys, sells, last_entry>>
  /\ UNCHANGED aux

d_asset == price_history[d_i][1]
d_history == price_history[d_i][2]

(* place_buy(asset) returns *)
place_buy(ok) ==
  /\ pc["spike_detector"] = "buy"
  /\ LET t == now["spike_detector"]
         out == BuyOutcome(ok, d_asset, d_history[Len(d_history)], t)
     IN  /\ active_trades' = out[1]
         /\ cooldowns' = out[2]
         /\ buys' = IF ok THEN [buys EXCEPT ![d_asset] = @ + 1] ELSE buys
         /\ last_entry' = IF ok THEN [last_entry EXCEPT ![d_asset] = t]
                          ELSE last_entry
         /\ DetectorGoOn(d_i + 1, out[1], out[2])
  /\ UNCHANGED <<shutdown, market_pairs, price_history, clock, snap, sells>>
  /\ UNCHANGED aux

-----------------------------------------------------------------------------
(* exit_manager *)

(* the quotients for the prices the feed quotes, worked out once *)
Quotients ==
  [price \in 0..(MaxPrice + MaxExitPrice),
   entry_price \in 1..(MaxPrice + MaxExitPrice) |->
     Float(price - entry_price, entry_price)]

(* (price - trade.entry_price) / trade.entry_price: the difference of two  *)
(* small integers is exact, the quotient is rounded; with a nan, or with an *)
(* entry price of inf, the quotient is nan, and inf when the price alone is *)
(* inf                                                                      *)
pnl_pct(price, entry_price) ==
  IF price = NaN \/ entry_price = NaN \/ entry_price = Infinity THEN FloatNaN
  ELSE IF price = Infinity THEN FloatInf
  ELSE IF <<price, entry_price>> \in DOMAIN Quotients THEN Quotients[price, entry_price]
  ELSE Float(price - entry_price, entry_price)
(* pnl_pct * TRADE_SIZE_USDC: the product of the rounded quotient, rounded  *)
pnl_cash(pct) == FloatTimes(pct, TRADE_SIZE_USDC)

(* the chain with the two stop-loss tests in the other order *)
exit_reason_CashLossFirst(pct, cash, held, pp, cp, pl, cl) ==
  IF pp # None /\ FloatGe(pct, pp) THEN "pct_profit"
  ELSE IF cp # None /\ FloatGe(cash, cp) THEN "cash_profit"
  ELSE IF cl # None /\ FloatLe(cash, cl) THEN "cash_loss"
  ELSE IF pl # None /\ FloatLe(pct, pl) THEN "pct_loss"
  ELSE IF held >= HOLDING_TIME_LIMIT THEN "time"
  ELSE "none"

(* the if/elif chain; pp, cp, pl, cl are PCT_PROFIT, CASH_PROFIT, PCT_LOSS, *)
(* CASH_LOSS, each None or a double                                         *)
exit_reason(pct, cash, held, pp, cp, pl, cl) ==
  IF pp # None /\ FloatGe(pct, pp) THEN "pct_profit"
  ELSE IF cp # None /\ FloatGe(cash, cp) THEN "cash_profit"
  ELSE IF pl # None /\ FloatLe(pct, pl) THEN "pct_loss"
  ELSE IF cl # None /\ FloatLe(cash, cl) THEN "cash_loss"
  ELSE IF held >= HOLDING_TIME_LIMIT THEN "time"
  ELSE "none"

ExitDecision(trade, price, t, pp, cp, pl, cl) ==
  LET pct == pnl_pct(price, trade.entry_price)
  IN  exit_reason(pct, pnl_cash(pct), t - trade.entry_time, pp, cp, pl, cl)

(* `if exit_reason:` *)
SellCalled(reason) == reason # "none"

(* `for asset, trade in list(state.active_trades.items())` on what is left, *)
(* s, of the list: <<"sell", s>> when place_sell is called for the head of  *)
(* s, <<"end", <<>>>> when the loop ends, <<"raise", <<>>>> when the        *)
(* division by a zero entry price raises out of the thread                  *)
RECURSIVE ExitScan(_)
ExitScan(s) ==
  IF s = <<>> THEN <<"end", <<>>>>
  ELSE LET asset == s[1][1]
           trade == s[1][2]
           history == GetOr(price_history, asset, <<>>)
       IN  IF history = <<>> THEN ExitScan(Tail(s))
           ELSE IF trade.entry_price = 0 THEN <<"raise", <<>>>>
           ELSE IF SellCalled(ExitDecision(trade, history[Len(history)],
                                           now["exit_manager"], PCT_PROFIT,
                                           CASH_PROFIT, PCT_LOSS, CASH_LOSS))
                THEN <<"sell", s>>
           ELSE ExitScan(Tail(s))

(* the loop runs on over s: into the next place_sell, the lock held, or to  *)
(* its end (or out of the thread), where the lock is released               *)
ExitGoOn(s) ==
  \E r \in {ExitScan(s)} :
      /\ snap' = r[2]
      /\ lock' = IF r[1] = "sell" THEN "exit_manager" ELSE "free"
      /\ pc' = [pc EXCEPT !["exit_manager"] =
                  IF r[1] = "sell" THEN "sell"
                  ELSE IF r[1] = "end" THEN "sleep" ELSE "raised"]
      /\ now' = IF r[1] = "sell" THEN now ELSE [now EXCEPT !["exit_manager"] = 0]

(* `with state.lock:` entered *)
exit_manager_enter ==
  /\ pc["exit_manager"] = "lock"
  /\ lock = "free"
  /\ ExitGoOn(active_trades)
  /\ UNCHANGED <<shutdown, market_pairs, price_history, active_trades,
                 cooldowns, clock, d_i, buys, sells, last_entry>>
  /\ UNCHANGED aux

e_asset == snap[1][1]

(* the record kept after a successful sell *)
SellOutcome_KeepsRecord(ok, asset) == active_trades

(* the record deleted whatever place_sell reports *)
SellOutcome_DeletesOnFailure(ok, asset) == DictDel(active_trades, asset)

(* what `if place_sell(asset):` leaves in active_trades *)
SellOutcome(ok, asset) ==
  IF ok THEN DictDel(active_trades, asset) ELSE active_trades

(* place_sell(asset) returns *)
place_sell(ok) ==
  /\ pc["exit_manager"] = "sell"
  /\ active_trades' = SellOutcome(ok, e_asset)
  /\ sells' = IF ok THEN [sells EXCEPT ![e_asset] = @ + 1] ELSE sells
  /\ ExitGoOn(Tail(snap))
  /\ UNCHANGED <<shutdown, market_pairs, price_history, cooldowns, clock,
                 d_i, buys, last_entry>>
  /\ UNCHANGED aux

-----------------------------------------------------------------------------
(* The four threads, the clock and the shutdown signal *)

Next ==
  \/ \E w \in Workers : is_shutdown(w)
  \/ \E w \in Detectors : time_time(w)
  \/ fetch_active_markets_fails
  \/ \E markets \in MarketLists : market_scan(markets)
  \/ fetch_prices_fails
  \/ \E prices \in PriceMaps : price_update(prices)
  \/ spike_detector_enter
  \/ \E ok \in BOOLEAN : place_buy(ok)
  \/ exit_manager_enter
  \/ \E ok \in BOOLEAN : place_sell(ok)
  \/ Tick

Spec == Init /\ [][Next]_vars

-----------------------------------------------------------------------------
(* Properties of the four workers, checked under Spec *)

IsOpen(a) == Has(active_trades, a)
Held(a) == IF IsOpen(a) THEN 1 ELSE 0

(* C1: the spike detector never calls place_buy for, nor records a trade    *)
(* for, an asset that has an ActiveTrade, and the record of an open trade   *)
(* (entry price, entry time) is never overwritten.                          *)
C1_NoDuplicateEntry ==
  [][/\ pc'["spike_detector"] = "buy" => ~Has(active_trades', price_history'[d_i'][1])
     /\ \A a \in Assets :
          IsOpen(a) =>
            /\ buys'[a] = buys[a]
            /\ Has(active_trades', a) =>
                 Get(active_trades', a) = Get(active_trades, a)]_vars

(* an open asset that still spikes, is off cooldown and under the cap was   *)
(* passed over in this cycle, which has gone on to buy another asset        *)
C1_Witness ==
  /\ pc["spike_detector"] = "buy"
  /\ \E k \in 1..(d_i - 1) :
       /\ IsOpen(price_history[k][1])
       /\ ~NoSpike(price_history[k][2])
       /\ ~OnCooldown(cooldowns, price_history[k][1], now["spike_detector"])
       /\ ~AtCapacity(active_trades)

(* C2: active_trades never has more than MAX_CONCURRENT_TRADES entries.     *)
C2_AtMostMaxTrades == Len(active_trades) <= MAX_CONCURRENT_TRADES

(* the cap is reached while another asset meets every other entry test *)
C2_Witness ==
  /\ Len(active_trades) = MAX_CONCURRENT_TRADES
  /\ pc["spike_detector"] = "lock"
  /\ \E k \in 1..Len(price_history) :
       /\ ~NoSpike(price_history[k][2])
       /\ ~InTrade(active_trades, price_history[k][1])
       /\ ~OnCooldown(cooldowns, price_history[k][1], now["spike_detector"])

(* C3: an entry on an asset comes at least COOLDOWN_SECONDS after the       *)
(* entry before it on that asset, whether or not that trade was exited.     *)
C3_Cooldown ==
  [][\A a \in Assets :
       buys'[a] # buys[a] =>
         /\ Get(active_trades', a).entry_time = last_entry'[a]
         /\ last_entry[a] # -1 =>
              last_entry'[a] - last_entry[a] >= COOLDOWN_SECONDS]_vars

(* an asset was entered, exited and entered again once the cooldown was over *)
C3_Witness ==
  \E a \in Assets :
    /\ buys[a] = 2
    /\ sells[a] = 1
    /\ IsOpen(a)
    /\ Get(active_trades, a).entry_time >= StartTime + COOLDOWN_SECONDS

(* C4: no worker is in an external call (fetch_active_markets,              *)
(* fetch_prices, place_buy, place_sell) while it holds the lock.            *)
C4_NoCallUnderLock ==
  \A w \in Workers : pc[w] \in {"fetch", "buy", "sell"} => lock # w

(* C7: per asset, successful buys minus successful sells is 1 while the     *)
(* asset has an ActiveTrade and 0 while it has none, so the total is the    *)
(* number of entries of active_trades; place_sell is only ever called for   *)
(* an asset that has an ActiveTrade.                                        *)
C7_ExitExactlyOnce ==
  /\ \A a \in Assets : buys[a] - sells[a] = Held(a)
  /\ Len(active_trades) = Cardinality({a \in Assets : IsOpen(a)})
  /\ pc["exit_manager"] = "sell" => IsOpen(snap[1][1])

(* a trade was opened and then sold *)
C7_Witness == \E a \in Assets : sells[a] = 1 /\ ~IsOpen(a)

(* the step in which place_buy returns, and the one in which place_sell does *)
BuyReturns == pc["spike_detector"] = "buy" /\ d_i' # d_i
SellReturns == pc["exit_manager"] = "sell" /\ snap' # snap

(* C8: when place_buy reports failure, active_trades and cooldowns are left *)
(* as they were and the asset still passes every entry test.                *)
C8_BuyFailureLeavesNoTrace ==
  [][BuyReturns /\ buys' = buys =>
       /\ active_trades' = active_trades
       /\ cooldowns' = cooldowns
       /\ EntryOk(d_asset, d_history, now["spike_detector"],
                  active_trades', cooldowns')]_vars

(* place_buy is being called for the second asset while the first, passed   *)
(* in this same cycle, still passes every entry test: its buy failed        *)
C8_Witness ==
  /\ pc["spike_detector"] = "buy"
  /\ d_i = 2
  /\ EntryOk(price_history[1][1], price_history[1][2], now["spike_detector"],
             active_trades, cooldowns)

(* C9: when place_sell reports failure the ActiveTrade stays as it was, and *)
(* a record leaves active_trades only in the step in which place_sell       *)
(* reports success for its asset.                                           *)
C9_SellFailureKeepsTrade ==
  [][/\ SellReturns /\ sells' = sells => active_trades' = active_trades
     /\ \A a \in Assets :
          IsOpen(a) /\ ~Has(active_trades', a) =>
            SellReturns /\ a = snap[1][1] /\ sells'[a] = sells[a] + 1]_vars

(* place_sell is being called for the second trade while the first, passed  *)
(* in this same cycle, is still open with an exit reason: its sell failed   *)
C9_Witness ==
  /\ pc["exit_manager"] = "sell"
  /\ Len(active_trades) = 2
  /\ snap = <<active_trades[2]>>
  /\ LET a == active_trades[1][1]
         h == Get(price_history, a)
     IN  SellCalled(ExitDecision(active_trades[1][2], h[Len(h)],
                                 now["exit_manager"], PCT_PROFIT, CASH_PROFIT,
                                 PCT_LOSS, CASH_LOSS))

-----------------------------------------------------------------------------
(* The workers under a shutdown signal.  Who holds the lock, and for how    *)
(* long, does not depend on the time of day: the clock stands still here.   *)

NextShutdown ==
  \/ \E w \in Workers : is_shutdown(w)
  \/ \E w \in Detectors : time_time(w)
  \/ fetch_active_markets_fails
  \/ \E markets \in MarketLists : market_scan(markets)
  \/ fetch_prices_fails
  \/ \E prices \in PriceMaps : price_update(prices)
  \/ spike_detector_enter
  \/ \E ok \in BOOLEAN : place_buy(ok)
  \/ exit_manager_enter
  \/ \E ok \in BOOLEAN : place_sell(ok)
  \/ set_shutdown

SpecShutdown == Init /\ [][NextShutdown]_vars

(* Every thread is scheduled and gets the lock if it is free again and      *)
(* again; requests.get(..., timeout=...) returns or raises.  Nothing makes  *)
(* place_buy or place_sell return, and nothing makes the signal arrive.     *)
(* Reading the clock waits for nothing: it stays enabled until it is done.  *)
Fairness ==
  /\ \A w \in Workers : SF_vars(is_shutdown(w))
  /\ \A w \in Detectors : WF_vars(time_time(w))
  /\ SF_vars(fetch_active_markets_fails \/ \E markets \in MarketLists : market_scan(markets))
  /\ SF_vars(fetch_prices_fails \/ \E prices \in PriceMaps : price_update(prices))
  /\ SF_vars(spike_detector_enter)
  /\ SF_vars(exit_manager_enter)

FairSpec == SpecShutdown /\ Fairness

InCall(w) == pc[w] \in {"fetch", "buy", "sell"}

(* C5: if the external call of one worker never returns, every other worker *)
(* again and again completes a cycle (is in its time.sleep) until its loop  *)
(* has ended, and its loop does end once the shutdown flag is set.          *)
C5_HangLeavesOthersRunning ==
  \A w \in Workers : \A v \in Workers \ {w} :
    <>[]InCall(w) =>
      /\ []<>(pc[v] \in {"sleep", "done"})
      /\ []<>(shutdown => pc[v] = "done")

-----------------------------------------------------------------------------
(* The price history on its own: market_scanner creates the deques and      *)
(* price_updater appends to them (spike_detector and exit_manager only read *)
(* price_history).  Every sample appended is written down in `appended`.    *)
(* "yes1" is quoted at every price, "no1" at one.                           *)

HistoryQuotes(a) == IF a = "yes1" THEN Prices ELSE {1}
HistoryPriceMaps ==
  UNION {{f \in [S -> Prices] : \A a \in S : f[a] \in HistoryQuotes(a)} :
           S \in SUBSET Assets}

price_update_logged(prices) ==
  /\ \A a \in DOMAIN prices : Len(appended[a]) < MaxAppends
  /\ price_update_body(prices)
  /\ appended' = [a \in Assets |->
                    IF a \in DOMAIN prices /\ Has(price_history, a)
                      THEN Append(appended[a], prices[a])
                      ELSE appended[a]]
  /\ UNCHANGED <<x_in, x_out, last_fetch, scanned, main, MAX_CONCURRENT_TRADES>>

NextHistory ==
  \/ \E w \in Fetchers : is_shutdown(w)
  \/ fetch_active_markets_fails
  \/ \E markets \in MarketLists : market_scan(markets)
  \/ fetch_prices_fails
  \/ \E prices \in HistoryPriceMaps : price_update_logged(prices)

SpecHistory == Init /\ [][NextHistory]_vars

LastSamples(s, n) == SubSeq(s, IF Len(s) > n THEN Len(s) - n + 1 ELSE 1, Len(s))

(* C6: the history of a tracked asset never has more than                   *)
(* PRICE_HISTORY_SIZE samples, and it is the last PRICE_HISTORY_SIZE        *)
(* samples appended to it, in the order they came.                          *)
C6_HistoryIsLastSamples ==
  \A i \in 1..Len(price_history) :
    /\ Len(price_history[i][2]) <= PRICE_HISTORY_SIZE
    /\ price_history[i][2] =
         LastSamples(appended[price_history[i][1]], PRICE_HISTORY_SIZE)

(* more samples than the deque holds, all different, have been appended *)
C6_Witness ==
  /\ Has(price_history, "yes1")
  /\ Len(appended["yes1"]) > PRICE_HISTORY_SIZE
  /\ \A i, j \in 1..Len(appended["yes1"]) :
       i # j => appended["yes1"][i] # appended["yes1"][j]

-----------------------------------------------------------------------------
(* The exit rules on their own: one iteration of the exit_manager loop for  *)
(* a trade, a latest price, a `now` and a setting of the four optional      *)
(* thresholds.                                                              *)

ExitInputs ==
  [entry_price : 1..MaxExitPrice, entry_time : Times, price : 0..MaxExitPrice,
   t : Times,
   pp : {None, Float(1, 2), Float(2, 1)},
   cp : {None, Float(5, 1), Float(10, 3)},
   pl : {None, Float(-1, 2), Float(-1, 1)},
   cl : {None, Float(-5, 1), Float(-10, 3)}]

InitExit == InitState /\ x_in \in ExitInputs /\ x_out = <<>>

exit_manager_iteration ==
  /\ x_out = <<>>
  /\ LET trade == ActiveTrade("yes1", x_in.entry_price, x_in.entry_time)
         reason == ExitDecision(trade, x_in.price, x_in.t,
                                x_in.pp, x_in.cp, x_in.pl, x_in.cl)
     IN  x_out' = [reason |-> reason, sell |-> SellCalled(reason)]
  /\ UNCHANGED <<lock, shutdown, market_pairs, price_history, active_trades,
                 cooldowns, pc, clock, now, d_i, snap, buys, sells, last_entry,
                 appended, x_in, last_fetch, scanned, main,
                 MAX_CONCURRENT_TRADES>>

SpecExit == InitExit /\ [][exit_manager_iteration]_vars

RuleNames == <<"pct_profit", "cash_profit", "pct_loss", "cash_loss", "time">>

(* which of the five rules match the inputs, each on its own *)
RuleMatches ==
  LET pct == pnl_pct(x_in.price, x_in.entry_price)
      cash == pnl_cash(pct)
  IN  << x_in.pp # None /\ ~FloatLess(pct, x_in.pp),
         x_in.cp # None /\ ~FloatLess(cash, x_in.cp),
         x_in.pl # None /\ ~FloatLess(x_in.pl, pct),
         x_in.cl # None /\ ~FloatLess(x_in.cl, cash),
         x_in.t - x_in.entry_time >= HOLDING_TIME_LIMIT >>

(* C10: the exit reason is the first rule that matches, in the order pct    *)
(* take-profit, cash take-profit, pct stop-loss, cash stop-loss, holding    *)
(* time; a rule whose threshold is not configured never fires; place_sell   *)
(* is called if and only if some rule matches.                              *)
C10_FirstMatchingRule ==
  x_out # <<>> =>
    LET first == {i \in 1..5 : RuleMatches[i] /\ \A j \in 1..(i - 1) : ~RuleMatches[j]}
    IN  /\ \A i \in first : x_out.reason = RuleNames[i] /\ x_out.sell
        /\ first = {} => x_out.reason = "none" /\ ~x_out.sell
        /\ x_in.pp = None => x_out.reason # "pct_profit"
        /\ x_in.cp = None => x_out.reason # "cash_profit"
        /\ x_in.pl = None => x_out.reason # "pct_loss"
        /\ x_in.cl = None => x_out.reason # "cash_loss"

(* the cash stop-loss and the holding-time rule both match, no earlier rule *)
(* does although the pct stop-loss is configured: the reason is cash_loss   *)
C10_Witness ==
  /\ x_out # <<>>
  /\ x_out.reason = "cash_loss"
  /\ x_in.pl # None
  /\ RuleMatches[5]

-----------------------------------------------------------------------------
(* The entry and the exit of a trade at every sample float(price) can be:   *)
(* the four workers with the price feed of "yes1" over Prices, zero         *)
(* included, and over nan and inf, and that of "no1" over Quotes.  What is  *)
(* entered, at which price, and what the exit manager divides by, does not  *)
(* depend on the time of day: the clock stands still here.                  *)

Samples == Prices \cup {NaN, Infinity}
EntryQuotes(a) == IF a = "yes1" THEN Samples ELSE Quotes
EntryPriceMaps ==
  UNION {{f \in [S -> Samples] : \A a \in S : f[a] \in EntryQuotes(a)} :
           S \in SUBSET Assets}

NextEntry ==
  \/ \E w \in Workers : is_shutdown(w)
  \/ \E w \in Detectors : time_time(w)
  \/ fetch_active_markets_fails
  \/ \E markets \in MarketLists : market_scan(markets)
  \/ fetch_prices_fails
  \/ \E prices \in EntryPriceMaps : price_update(prices)
  \/ spike_detector_enter
  \/ \E ok \in BOOLEAN : place_buy(ok)
  \/ exit_manager_enter
  \/ \E ok \in BOOLEAN : place_sell(ok)

SpecEntry == Init /\ [][NextEntry]_vars

(* the signal of compute_delta and the threshold test, written out: the    *)
(* sample before the latest is above zero and the quotient, a number or     *)
(* inf, is SPIKE_THRESHOLD at least; a nan is above nothing                 *)
Signal(h) ==
  /\ Len(h) >= 2
  /\ LET prev == h[Len(h) - 1]
         curr == h[Len(h)]
     IN  /\ prev # NaN /\ curr # NaN
         /\ prev = Infinity \/ prev > 0
         /\ IF prev = Infinity THEN FALSE
            ELSE IF curr = Infinity THEN TRUE
            ELSE (curr - prev) * SPIKE_THRESHOLD[2] >= SPIKE_THRESHOLD[1] * prev

(* C11: place_buy is called for, and a trade is recorded on, an asset only  *)
(* when its history has two samples at least, the one before the latest is  *)
(* positive and (latest - previous) / previous >= SPIKE_THRESHOLD, as       *)
(* floats compare; the entry price recorded is the latest sample; the       *)
(* detector never leaves its loop other than at shutdown.                   *)
C11_EntryOnlyOnSpike ==
  [][/\ pc'["spike_detector"] = "buy" => Signal(price_history'[d_i'][2])
     /\ \A a \in Assets :
          buys'[a] # buys[a] =>
            /\ Signal(Get(price_history, a))
            /\ Get(active_trades', a).entry_price =
                 Get(price_history, a)[Len(Get(price_history, a))]
     /\ pc'["spike_detector"] \in {"top", "now", "lock", "buy", "sleep"}]_vars

(* C19: with SPIKE_THRESHOLD >= 0, every ActiveTrade has a positive entry   *)
(* price and its asset a history that is not empty, and the exit manager    *)
(* never ends on the division by entry_price.                               *)
C19_PositiveEntryPrice ==
  SPIKE_THRESHOLD[1] >= 0 =>
    /\ \A i \in 1..Len(active_trades) :
         /\ NumLess(0, active_trades[i][2].entry_price)
         /\ Has(price_history, active_trades[i][1])
         /\ Get(price_history, active_trades[i][1]) # <<>>
    /\ pc["exit_manager"] # "raised"

-----------------------------------------------------------------------------
(* Properties of the workers under a shutdown signal, checked under         *)
(* SpecShutdown                                                             *)

(* C12: the flag is polled before every time.sleep as well as at the top of *)
(* the loop: once the flag is set, no worker that finishes its cycle goes   *)
(* into its time.sleep.                                                     *)
C12_NoSleepAfterShutdown ==
  [][shutdown => \A w \in Workers : pc'[w] = "sleep" => pc[w] = "sleep"]_vars

-----------------------------------------------------------------------------
(* The main thread and the signal handler.  The main thread runs            *)
(* `while not state.is_shutdown(): time.sleep(1)` and then joins the four   *)
(* threads in their order.  shutdown_handler runs on the main thread,       *)
(* between two of its instructions, wherever the signal finds it, the       *)
(* inside of is_shutdown included: the main thread goes on only when the    *)
(* handler has returned.  BotState.lock is a threading.Lock, not reentrant. *)
(* A handler is at "wait" from its start to the acquire of `with self.lock` *)
(* in set_shutdown (line 118), at "held" before `self.shutdown = True`      *)
(* (119), at "stored" before the release, and "idle" when it has returned.  *)
(* Whether the interpreter handles a signal between these instructions      *)
(* depends on its version: a further signal may find the handler at any of  *)
(* them, and its handler (main.nested) then runs on top of the first, which *)
(* goes on only when the second has returned.                               *)

threads == <<"market_scanner", "price_updater", "spike_detector", "exit_manager">>

others == <<market_pairs, price_history, active_trades, cooldowns, pc, clock,
            now, d_i, snap, buys, sells, last_entry, appended, x_in, x_out,
            last_fetch, scanned, MAX_CONCURRENT_TRADES>>

(* is_shutdown() called by the main thread: `with self.lock:` entered *)
main_is_shutdown_enter ==
  /\ main.handler = "idle"
  /\ main.pc \in {"top", "sleep"}
  /\ lock = "free"
  /\ lock' = "main"
  /\ main' = [main EXCEPT !.pc = "held"]
  /\ UNCHANGED shutdown
  /\ UNCHANGED others

(* `return self.shutdown`, the lock released; then time.sleep(1) or the joins *)
main_is_shutdown_return ==
  /\ main.handler = "idle"
  /\ main.pc = "held"
  /\ lock' = "free"
  /\ main' = [main EXCEPT !.pc = IF shutdown THEN "join" ELSE "sleep"]
  /\ UNCHANGED shutdown
  /\ UNCHANGED others

(* t.join() returns for the next thread of `threads`, which has returned or *)
(* has ended by an exception                                                *)
main_join ==
  /\ main.handler = "idle"
  /\ main.pc = "join"
  /\ pc[threads[main.joined + 1]] \in {"done", "raised"}
  /\ main' = [main EXCEPT !.joined = @ + 1,
                          !.pc = IF main.joined + 1 = Len(threads)
                                   THEN "stopped" ELSE "join"]
  /\ UNCHANGED <<lock, shutdown>>
  /\ UNCHANGED others

(* SIGINT or SIGTERM: shutdown_handler starts and calls                     *)
(* state.set_shutdown(), on top of the main thread, or of the handler of an *)
(* earlier signal that has not returned                                     *)
signal ==
  /\ main.pc # "stopped"
  /\ main.nested = "idle"
  /\ main' = IF main.handler = "idle" THEN [main EXCEPT !.handler = "wait"]
             ELSE [main EXCEPT !.nested = "wait"]
  /\ UNCHANGED <<lock, shutdown>>
  /\ UNCHANGED others

(* the handler that runs: the one on top *)
Running == IF main.nested # "idle" THEN "nested" ELSE "handler"
HandlerAt(at) == main[Running] = at
HandlerTo(at) == main' = [main EXCEPT ![Running] = at]

(* set_shutdown: `with self.lock:` acquires the lock, when it is free *)
handler_acquire ==
  /\ HandlerAt("wait")
  /\ lock = "free"
  /\ lock' = "handler"
  /\ HandlerTo("held")
  /\ UNCHANGED shutdown
  /\ UNCHANGED others

(* set_shutdown: `self.shutdown = True` *)
handler_store ==
  /\ HandlerAt("held")
  /\ shutdown' = TRUE
  /\ HandlerTo("stored")
  /\ UNCHANGED lock
  /\ UNCHANGED others

(* set_shutdown: the with statement releases the lock; the handler returns *)
handler_release ==
  /\ HandlerAt("stored")
  /\ lock' = "free"
  /\ HandlerTo("idle")
  /\ UNCHANGED shutdown
  /\ UNCHANGED others

NextMain ==
  \/ \E w \in Workers : is_shutdown(w)
  \/ \E w \in Detectors : time_time(w)
  \/ fetch_active_markets_fails
  \/ \E markets \in MarketLists : market_scan(markets)
  \/ fetch_prices_fails
  \/ \E prices \in NarrowPriceMaps : price_update(prices)
  \/ spike_detector_enter
  \/ \E ok \in BOOLEAN : place_buy(ok)
  \/ exit_manager_enter
  \/ \E ok \in BOOLEAN : place_sell(ok)
  \/ main_is_shutdown_enter
  \/ main_is_shutdown_return
  \/ main_join
  \/ signal
  \/ handler_acquire
  \/ handler_store
  \/ handler_release

SpecMain == Init /\ [][NextMain]_vars

(* Every thread is scheduled and gets the lock if it is free again and      *)
(* again; requests.get(..., timeout=...) returns or raises; place_buy and   *)
(* place_sell log and return.  Nothing makes a signal arrive.               *)
FairnessMain ==
  /\ Fairness
  /\ SF_vars(\E ok \in BOOLEAN : place_buy(ok))
  /\ SF_vars(\E ok \in BOOLEAN : place_sell(ok))
  /\ SF_vars(main_is_shutdown_enter)
  /\ SF_vars(main_is_shutdown_return)
  /\ SF_vars(main_join)
  /\ SF_vars(handler_acquire)
  /\ WF_vars(handler_store)
  /\ WF_vars(handler_release)

FairSpecMain == SpecMain /\ FairnessMain

AllReturned == \A w \in Workers : pc[w] = "done"

(* C13: once the flag is set, every worker eventually returns, without      *)
(* starting a cycle at a loop test made after the flag was set, and the     *)
(* main thread is stopped only when all four workers have returned.         *)
C13_ShutdownTerminates ==
  /\ shutdown ~> AllReturned
  /\ [](main.pc = "stopped" => AllReturned)
  /\ [][shutdown =>
          \A w \in Workers :
            pc[w] \in {"top", "sleep"} /\ pc'[w] # pc[w] => pc'[w] = "done"]_vars

(* C14: the handler of a signal, wherever the signal finds the main thread, *)
(* returns with the flag set, and the flag once set stays set.              *)
C14_HandlerCompletes ==
  /\ (main.handler = "wait") ~> (main.handler = "idle" /\ shutdown)
  /\ [][shutdown => shutdown']_vars

-----------------------------------------------------------------------------
(* The two fetching workers step by step, next to the two trading ones: the *)
(* outcome of every fetch is written down in last_fetch, what a completed   *)
(* scan kept in scanned, and the log line after the scanner's               *)
(* `with state.lock:` block is a step of its own.  The clock stands still.  *)
(* `except Exception` catches what fetch_active_markets() or fetch_prices() *)
(* raises, before anything is written, and what the `with state.lock:`      *)
(* block raises on a response it cannot read, after what came before the    *)
(* unreadable part has been written.                                        *)

(* What the market-data service can answer besides Markets: the pair with a *)
(* liquidity of nan or null, and with a token that has no "token_id" or     *)
(* whose "token_id" cannot be a dict key; alone, or after an entry that is  *)
(* kept.                                                                    *)
KeptMarket == [tokens |-> <<"yes1", "no1">>, liquidity |-> MIN_LIQUIDITY]
FetchMarkets ==
  Markets
  \cup {[tokens |-> <<"yes1", "no1">>, liquidity |-> l] : l \in {NaN, Null}}
  \cup {[tokens |-> t, liquidity |-> MIN_LIQUIDITY] :
          t \in {<<"yes1", Unhashable>>, <<Unhashable, "no1">>,
                 <<"yes1", NoTokenId>>}}
FetchMarketLists ==
  {<<>>} \cup {<<m>> : m \in FetchMarkets}
         \cup {<<KeptMarket, m>> : m \in FetchMarkets}

(* the assets of the markets a completed scan has kept: two tokens, and a   *)
(* liquidity that is not below MIN_LIQUIDITY                                *)
Kept(markets) ==
  UNION {{markets[i].tokens[1], markets[i].tokens[2]} :
           i \in {j \in 1..Len(markets) :
                    /\ Len(markets[j].tokens) = 2
                    /\ ~NumLess(markets[j].liquidity, MIN_LIQUIDITY)}}

(* fetch_active_markets() raises (the request, raise_for_status or the JSON *)
(* decoding): nothing has been written                                      *)
fetch_active_markets_fails_noted ==
  /\ fetch_active_markets_fails_body
  /\ last_fetch' = [by |-> "market_scanner", returned |-> FALSE, failed |-> TRUE]
  /\ UNCHANGED <<appended, x_in, x_out, scanned, main, MAX_CONCURRENT_TRADES>>

(* The `with state.lock:` block of market_scanner on the response          *)
(* `markets`.  When the loop ends without an exception the scan has         *)
(* completed and the log line is next.  When an entry raises, what the      *)
(* entries before it and the entry itself have stored by then stays (the    *)
(* store under pair.yes at line 170 when line 171 raises), the with         *)
(* statement releases the lock, the except clause logs the error and the    *)
(* log line of a completed scan is skipped; then time.sleep.                *)
market_scan_noted(markets) ==
  /\ pc["market_scanner"] = "fetch"
  /\ lock = "free"
  /\ \E st \in {ScanMarkets(markets, <<market_pairs, price_history, FALSE>>)} :
       /\ market_pairs' = st[1]
       /\ price_history' = st[2]
       /\ pc' = [pc EXCEPT !["market_scanner"] = IF st[3] THEN "sleep" ELSE "log"]
       /\ last_fetch' = [by |-> "market_scanner", returned |-> TRUE,
                         failed |-> st[3]]
       /\ scanned' = IF st[3] THEN scanned ELSE Kept(markets)
  /\ UNCHANGED <<lock, shutdown, active_trades, cooldowns, clock, now, d_i,
                 snap, buys, sells, last_entry>>
  /\ UNCHANGED <<appended, x_in, x_out, main, MAX_CONCURRENT_TRADES>>

(* The response is the entries `markets`, none of which raises, followed by *)
(* an entry that is not a JSON object, so that m.get raises at line 155,    *)
(* or, with no entry before, the response is not a list and `for m in       *)
(* markets` raises at line 154.  The entries before are stored, the lock is *)
(* released by the with statement, the except clause logs the error; then   *)
(* time.sleep.  The scan has not completed.                                 *)
market_scan_raises_noted(markets) ==
  /\ ~ScanMarkets(markets, <<market_pairs, price_history, FALSE>>)[3]
  /\ market_scan_body(markets)
  /\ last_fetch' = [by |-> "market_scanner", returned |-> TRUE, failed |-> TRUE]
  /\ UNCHANGED <<appended, x_in, x_out, scanned, main, MAX_CONCURRENT_TRADES>>

(* logger.info(f"... ({len(state.market_pairs)//2} pairs)"): market_pairs   *)
(* is read after the `with` block, whoever holds the lock; then time.sleep  *)
market_scan_log ==
  /\ pc["market_scanner"] = "log"
  /\ pc' = [pc EXCEPT !["market_scanner"] = "sleep"]
  /\ UNCHANGED <<lock, shutdown, market_pairs, price_history, active_trades,
                 cooldowns, clock, now, d_i, snap, buys, sells, last_entry>>
  /\ UNCHANGED aux

(* fetch_prices() raises: nothing has been written *)
fetch_prices_fails_noted ==
  /\ fetch_prices_fails_body
  /\ last_fetch' = [by |-> "price_updater", returned |-> FALSE, failed |-> TRUE]
  /\ UNCHANGED <<appended, x_in, x_out, scanned, main, MAX_CONCURRENT_TRADES>>

price_update_noted(prices) ==
  /\ price_update_body(prices)
  /\ last_fetch' = [by |-> "price_updater", returned |-> TRUE, failed |-> FALSE]
  /\ UNCHANGED <<appended, x_in, x_out, scanned, main, MAX_CONCURRENT_TRADES>>

(* The response is the items `prices` followed by an item for `asset` whose *)
(* price float() rejects.  float(price) is called for a tracked asset only  *)
(* (`if asset in state.price_history`), so the item raises at line 193 when *)
(* `asset` is tracked: the samples before it are appended, the with         *)
(* statement releases the lock, the except clause logs the error; then      *)
(* time.sleep.                                                              *)
price_update_raises_noted(prices, asset) ==
  /\ asset \notin DOMAIN prices
  /\ Has(price_history, asset)
  /\ price_update_body(prices)
  /\ last_fetch' = [by |-> "price_updater", returned |-> TRUE, failed |-> TRUE]
  /\ UNCHANGED <<appended, x_in, x_out, scanned, main, MAX_CONCURRENT_TRADES>>

(* The response is not a JSON object (null, a list, a string):              *)
(* prices.items() raises at line 191, whatever is tracked, before anything  *)
(* is appended; the with statement releases the lock, the except clause     *)
(* logs the error; then time.sleep.                                         *)
price_items_raises_noted ==
  /\ pc["price_updater"] = "fetch"
  /\ lock = "free"
  /\ pc' = [pc EXCEPT !["price_updater"] = "sleep"]
  /\ last_fetch' = [by |-> "price_updater", returned |-> TRUE, failed |-> TRUE]
  /\ UNCHANGED <<lock, shutdown, market_pairs, price_history, active_trades,
                 cooldowns, clock, now, d_i, snap, buys, sells, last_entry>>
  /\ UNCHANGED <<appended, x_in, x_out, scanned, main, MAX_CONCURRENT_TRADES>>

NextFetch ==
  \/ \E w \in Workers : is_shutdown(w)
  \/ \E w \in Detectors : time_time(w)
  \/ fetch_active_markets_fails_noted
  \/ \E markets \in FetchMarketLists : market_scan_noted(markets)
  \/ \E markets \in FetchMarketLists : market_scan_raises_noted(markets)
  \/ market_scan_log
  \/ fetch_prices_fails_noted
  \/ \E prices \in NarrowPriceMaps : price_update_noted(prices)
  \/ \E prices \in NarrowPriceMaps : \E asset \in Assets :
       price_update_raises_noted(prices, asset)
  \/ price_items_raises_noted
  \/ spike_detector_enter
  \/ \E ok \in BOOLEAN : place_buy(ok)
  \/ exit_manager_enter
  \/ \E ok \in BOOLEAN : place_sell(ok)

SpecFetch == Init /\ [][NextFetch]_vars

(* C15, as claimed: every key of price_history is an asset of a pair that   *)
(* the most recent completed scan returned and kept.                        *)
C15_KeysFromLastScan ==
  \A i \in 1..Len(price_history) : price_history[i][1] \in scanned

(* C15, as amended: every key of price_history is a key of market_pairs,    *)
(* and the MarketPair stored there names it and has a liquidity that is not *)
(* below MIN_LIQUIDITY as floats compare (a number that is MIN_LIQUIDITY at *)
(* least, or nan, which the test `liquidity < MIN_LIQUIDITY` lets through), *)
(* whether or not the scan that stored it is the last one and whether it    *)
(* completed or was cut short by an entry that raised, the entry whose pair *)
(* it stored under its first asset only included.                           *)
C15_KeysFromSomeScan ==
  \A i \in 1..Len(price_history) :
    LET a == price_history[i][1]
    IN  /\ Has(market_pairs, a)
        /\ a \in {Get(market_pairs, a).yes, Get(market_pairs, a).no}
        /\ ~NumLess(Get(market_pairs, a).liquidity, MIN_LIQUIDITY)

(* a scan that kept nothing has just completed while both assets of a pair *)
(* kept by an earlier scan are still keys of price_history                  *)
C15_Witness ==
  /\ last_fetch = [by |-> "market_scanner", returned |-> TRUE, failed |-> FALSE]
  /\ pc["market_scanner"] = "log"
  /\ scanned = {}
  /\ Has(price_history, "yes1") /\ Has(price_history, "no1")

(* C16: a worker that is about to read or write market_pairs,               *)
(* price_history, active_trades or cooldowns in the middle of its cycle     *)
(* (the log line of the scanner, the record of a buy, the delete after a    *)
(* sell) holds the lock.                                                    *)
C16_AccessUnderLock ==
  \A w \in Workers : pc[w] \in {"log", "buy", "sell"} => lock = w

(* the fetch of w fails: the call it issued raises, or the response it      *)
(* returned cannot be read, and the except clause of the cycle runs         *)
FetchFailed(w) ==
  /\ pc[w] = "fetch"
  /\ pc'[w] # "fetch"
  /\ last_fetch'.by = w
  /\ last_fetch'.failed

(* C17: the step in which a fetch fails, by the call or by a response that  *)
(* cannot be read, leaves market_pairs, price_history, active_trades and    *)
(* cooldowns as they were, the lock not held by the worker, and the worker  *)
(* in the time.sleep that precedes its next loop test; no fetching worker   *)
(* ever ends.                                                               *)
C17_FetchFailureSkipsCycle ==
  [][\A w \in Fetchers :
       /\ FetchFailed(w) =>
            /\ UNCHANGED <<market_pairs, price_history, active_trades, cooldowns>>
            /\ lock' # w
            /\ pc'[w] = "sleep"
       /\ pc'[w] \in {"top", "fetch", "log", "sleep"}]_vars

(* C18: no step removes a key of price_history; a scan leaves the history   *)
(* of every key already there as it was; a key that is new has an empty     *)
(* history.                                                                 *)
C18_ScanKeepsHistories ==
  [][/\ Len(price_history') >= Len(price_history)
     /\ \A i \in 1..Len(price_history) :
          /\ price_history'[i][1] = price_history[i][1]
          /\ pc["market_scanner"] = "fetch" /\ pc'["market_scanner"] # "fetch"
               => price_history'[i] = price_history[i]
     /\ \A i \in (Len(price_history) + 1)..Len(price_history') :
          price_history'[i][2] = <<>>]_vars

(* the last fetch was a scan that kept the pair, and no sample has come     *)
(* since: the histories it found, full and unequal, are still there         *)
C18_Witness ==
  /\ last_fetch = [by |-> "market_scanner", returned |-> TRUE, failed |-> FALSE]
  /\ pc["market_scanner"] = "log"
  /\ scanned = {"yes1", "no1"}
  /\ Len(Get(price_history, "yes1")) = PRICE_HISTORY_SIZE
  /\ Get(price_history, "yes1") # Get(price_history, "no1")

-----------------------------------------------------------------------------
(* The holding time, checked under Spec *)

(* the trades of s, what is left of the snapshot, for which the loop of     *)
(* exit_manager computes `held` before it calls place_sell or ends          *)
RECURSIVE Evaluated(_)
Evaluated(s) ==
  IF s = <<>> THEN {}
  ELSE LET trade == s[1][2]
           history == GetOr(price_history, s[1][1], <<>>)
       IN  IF history = <<>> THEN Evaluated(Tail(s))
           ELSE IF trade.entry_price = 0 THEN {}
           ELSE {trade} \cup
                IF SellCalled(ExitDecision(trade, history[Len(history)],
                                           now["exit_manager"], PCT_PROFIT,
                                           CASH_PROFIT, PCT_LOSS, CASH_LOSS))
                  THEN {} ELSE Evaluated(Tail(s))

(* C20: for every trade the exit manager evaluates, held = now - entry_time *)
(* is not negative.                                                         *)
C20_HeldNotNegative ==
  [][\A trade \in
        IF pc["exit_manager"] = "lock" /\ pc'["exit_manager"] # "lock"
          THEN Evaluated(active_trades)
        ELSE IF pc["exit_manager"] = "sell" /\ snap' # snap
          THEN Evaluated(Tail(snap))
        ELSE {} :
        now["exit_manager"] - trade.entry_time >= 0]_vars

====
